---------------------------- MODULE Spec2Model ----------------------------
(***************************************************************************)
(* Model of run_FDHW.py: the right-hand side of the flux-driven            *)
(* Hasegawa-Wakatani equations, its buffer gates, its index sets and the   *)
(* flat state buffer it shares with the time integrator.                   *)
(*                                                                         *)
(* Reals are fixed-point integers: the integer v stands for v / Scale.     *)
(* The grid X = arange(0, Lx, Lx/Npx) is measured in units of Lx/Npx, so   *)
(* X[k] = k.  Arrays are functions on 0 .. n-1, as in the source; a flat   *)
(* buffer is a sequence of floats, 1-based.                                *)
(***************************************************************************)
EXTENDS Integers, Sequences, FiniteSets, TLC

VARIABLES cfg, pc, status, grid, gate, nr0, mem, base, written, nextBuf,
          returned, calls, seed, ampSub, ampAdd, durdtL, dnrdtL, rforce, probe

vars == <<cfg, pc, status, grid, gate, nr0, mem, base, written, nextBuf,
          returned, calls, seed, ampSub, ampAdd, durdtL, dnrdtL, rforce, probe>>

---------------------------------------------------------------------------
(* Bounds of the model *)

\* largest amplitude (in units of 1.0) of the zonal derivative profiles
MaxAmp == 1
\* number of distinct turbulent spectra the transforms may return
MaxSeed == 1
\* number of rhs evaluations the integrator makes
MaxCalls == 2
\* grid length of the gate-function runs
GateN == 6
\* largest padded resolution of the index-set runs
MaxNp == 16
\* number of transform calls in the transform runs
MaxXf == 3

(* Program constants *)
mupen == 100
dtstep == 102

Scale == 2^10
PScale == 2^20

\* the padded resolutions (Npx, Npy) the runs of rhs are set up with
Configs == {<<12, 12>>, <<12, 6>>, <<24, 24>>, <<128, 128>>}

---------------------------------------------------------------------------
(* Arithmetic *)

Abs(a) == IF a < 0 THEN -a ELSE a

Min(a, b) == IF a < b THEN a ELSE b

\* Python's int(a / b) for b > 0: truncation toward zero
TruncDiv(a, b) == IF a >= 0 THEN a \div b ELSE -((-a) \div b)

\* fixed-point product a * b, rounded toward zero; |b| stays below 2^20
Mul(a, b) ==
    LET s  == IF (a < 0) = (b < 0) THEN 1 ELSE -1
        ua == Abs(a)
        ub == Abs(b)
    IN  s * ((ua \div Scale) * ub + ((ua % Scale) * ub) \div Scale)

\* Python's index resolution: a negative index counts from the end
Res(i, n) == IF i < 0 THEN n + i ELSE i

\* the positions start, start + step, ... below stop of an array of length len
SliceIdx(start, stop, step, len) ==
    LET hi == Min(stop, len)
        n  == IF hi > start THEN (hi - start + step - 1) \div step ELSE 0
    IN  [j \in 1..n |-> start + (j - 1) * step]

---------------------------------------------------------------------------
(* Tables of the exponential, rounded to fixed point *)

\* ExpNegTab[d][n] = PScale * exp(-d / n), 1 <= n <= d
ExpNegTab ==
  <<
     <<385750>>,
     <<141909, 385750>>,
     <<52206, 233969, 385750>>,
     <<19205, 141909, 276402, 385750>>,
     <<7065, 86072, 198050, 300422, 385750>>,
     <<2599, 52206, 141909, 233969, 315825, 385750>>,
     <<956, 31664, 101682, 182215, 258576, 326530, 385750>>,
     <<352, 19205, 72859, 141909, 211704, 276402, 334398, 385750>>,
     <<129, 11649, 52206, 110519, 173328, 233969, 289882, 340423, 385750>>,
     <<48, 7065, 37407, 86072, 141909, 198050, 251292, 300422, 345184, 385750>>,
     <<18, 4285, 26803, 67033, 116186, 167646, 217840, 265122, 308884, 349041, 385750>>,
     <<6, 2599, 19205, 52206, 95125, 141909, 188840, 233969, 276402, 315825, 352228, 385750>>,
     <<2, 1576, 13761, 40658, 77881, 120124, 163702, 206477, 247335, 285770, 321620, 354907,
       385750>>,
     <<1, 956, 9860, 31664, 63764, 101682, 141909, 182215, 221325, 258576, 293671, 326530,
       357189, 385750>>,
     <<0, 580, 7065, 24660, 52206, 86072, 123018, 160804, 198050, 233969, 268151, 300422,
       330743, 359157, 385750>>,
     <<0, 352, 5062, 19205, 42742, 72859, 106642, 141909, 177223, 211704, 244849, 276402,
       306255, 334398, 360871, 385750>>
  >>

\* GaussTab[d + 1] = Scale * exp(-d^2 / 50); it underflows to 0 from d = 20 on
GaussTab ==
  <<1024, 1004, 945, 855, 744, 621, 498, 384, 285, 203, 139, 91, 57, 35, 20, 11, 6, 3, 2, 1>>

\* exp(-(X - X[c])^2 / sigS^2 / 2) at X[k], with sigS = 5 * Lx / Npx
Gauss(k, c) ==
    LET d == Abs(k - c)
    IN  IF d < Len(GaussTab) THEN GaussTab[d + 1] ELSE 0

Nr0Tab12 ==
    <<
       128645, 128586, 128425, 127991, 126828, 123797, 116408, 100994, 77208, 53422, 38007,
       30618
    >>
Nr0Tab24 ==
    <<
       128645, 128623, 128586, 128525, 128425, 128261, 127991, 127549, 126828, 125662, 123797,
       120871, 116408, 109900, 100994, 89814, 77208, 64601, 53422, 44515, 38007, 33545, 30618,
       28753
    >>
Nr0Tab128 ==
    <<
       128645, 128642, 128638, 128634, 128629, 128624, 128619, 128613, 128607, 128599, 128592,
       128583, 128573, 128563, 128551, 128539, 128525, 128510, 128493, 128475, 128455, 128433,
       128409, 128382, 128353, 128321, 128286, 128247, 128205, 128159, 128108, 128052, 127991,
       127923, 127850, 127769, 127680, 127583, 127477, 127360, 127232, 127092, 126938, 126770,
       126587, 126385, 126165, 125925, 125662, 125375, 125062, 124720, 124347, 123941, 123498,
       123017, 122494, 121926, 121310, 120642, 119919, 119138, 118295, 117386, 116408, 115358,
       114233, 113029, 111744, 110375, 108921, 107381, 105754, 104040, 102240, 100357, 98392,
       96350, 94236, 92055, 89814, 87522, 85185, 82815, 80421, 78012, 75600, 73195, 70807,
       68447, 66125, 63848, 61627, 59467, 57377, 55360, 53422, 51566, 49795, 48109, 46511,
       45000, 43575, 42234, 40976, 39799, 38699, 37673, 36719, 35833, 35010, 34249, 33545,
       32895, 32295, 31742, 31233, 30766, 30336, 29941, 29578, 29246, 28942, 28663, 28408,
       28175, 27961, 27766
    >>

\* nr0 = Lx * (tanh((1 - 3 * X/Lx / 2) * 4) / 2 + 0.75) on the grid of length n
Nr0(n) ==
    LET t == CASE n = 12 -> Nr0Tab12
               [] n = 24 -> Nr0Tab24
               [] n = 128 -> Nr0Tab128
    IN  [k \in 0..(n - 1) |-> t[k + 1]]

---------------------------------------------------------------------------
(* Buffer indices, in the end-relative form the source keeps them in *)

il(n) == TruncDiv(n, 128)
ir(n) == -TruncDiv(n, 128)
i1(n) == TruncDiv(n, 8)
i2(n) == -TruncDiv(n, 8)
im1(n) == TruncDiv(i1(n), 2)
im2(n) == TruncDiv(i2(n), 2)

\* the ordering 0 <= il < im1 < i1 < i2 < im2 < ir < Npx of the resolved indices
ValidOrder(n) ==
    /\ 0 <= Res(il(n), n)
    /\ Res(il(n), n) < Res(im1(n), n)
    /\ Res(im1(n), n) < Res(i1(n), n)
    /\ Res(i1(n), n) < Res(i2(n), n)
    /\ Res(i2(n), n) < Res(im2(n), n)
    /\ Res(im2(n), n) < Res(ir(n), n)
    /\ Res(ir(n), n) < n

---------------------------------------------------------------------------
(* Penalisation and smooth flattening functions *)

\* p(y) at y = num / den, 0 < den, y <= 1: 0 for y <= 0, exp(-1/y) for y > 0
p(num, den) == IF num > 0 THEN ExpNegTab[den][num] ELSE 0

\* jump with its numerator taken at 1 - y
jump_falling(num, den) ==
    (p(den - num, den) * Scale) \div (p(num, den) + p(den - num, den))

\* jump(y) = p(y) / (p(y) + p(1 - y)) at y = num / den
jump(num, den) ==
    (p(num, den) * Scale) \div (p(num, den) + p(den - num, den))

\* smooth_gate(X, gl, g1, g2, gr) on the grid of length n.  The four masked
\* assignments of the source are applied in order, so the last one wins.
smooth_gate(n, gl, g1, g2, gr) ==
    LET xl == Res(gl, n)
        x1 == Res(g1, n)
        x2 == Res(g2, n)
        xr == Res(gr, n)
        idl(k) == Abs(2 * k - (x1 + xl)) < (x1 - xl)
        idr(k) == Abs(2 * k - (xr + x2)) < (xr - x2)
    IN  [k \in 0..(n - 1) |->
            IF k >= xr THEN 0
            ELSE IF idr(k) THEN jump(xr - k, xr - x2)
            ELSE IF idl(k) THEN jump(k - xl, x1 - xl)
            ELSE IF k <= xl THEN 0
            ELSE Scale]

\* H1 written without its parentheses: 1 - psi_1D * (X < X[i1])
H1_noparen(n, psi) ==
    [k \in 0..(n - 1) |-> Scale - psi[k] * (IF k < Res(i1(n), n) THEN 1 ELSE 0)]

\* H1 = (1 - psi_1D) * (X < X[i1])
H1(n, psi) ==
    [k \in 0..(n - 1) |-> (Scale - psi[k]) * (IF k < Res(i1(n), n) THEN 1 ELSE 0)]

\* H2 = (1 - psi_1D) * (X > X[i2])
H2(n, psi) ==
    [k \in 0..(n - 1) |-> (Scale - psi[k]) * (IF k > Res(i2(n), n) THEN 1 ELSE 0)]

\* the gate masks built at setup
MakeGates(n) ==
    LET psi == smooth_gate(n, il(n), i1(n), i2(n), ir(n))
    IN  [psi_1D |-> psi, H1 |-> H1(n, psi), H2 |-> H2(n, psi)]

---------------------------------------------------------------------------
(* Fourier grid and index sets *)

\* Nx, Ny = 2 * int(floor(Npx / 3)), 2 * int(floor(Npy / 3))
Nx(npx) == 2 * (npx \div 3)
Ny(npy) == 2 * (npy \div 3)

\* len(kx): the modes of the slice list sl, in its order: kx = 0 with
\* ky = 1 .. Ny/2 - 1, then kx = 1 .. Nx/2 - 1 with ky = 0 .. Ny/2 - 1, then
\* the negative kx with ky = 1 .. Ny/2 - 1
NModes(npx, npy) ==
    LET a == Nx(npx) \div 2
        b == Ny(npy) \div 2
    IN  (b - 1) + (a - 1) * b + (a - 1) * (b - 1)

\* slbar = np.s_[int(Ny/2) - 1 : int(Ny/2) * int(Nx/2) - 1 : int(Nx/2)]
slbar(npx, npy) ==
    LET a == Nx(npx) \div 2
        b == Ny(npy) \div 2
    IN  SliceIdx(b - 1, b * a - 1, a, NModes(npx, npy))

Range(s) == {s[j] : j \in DOMAIN s}

\* slturb = np.setdiff1d(np.arange(len(kx)), np.arange(len(kx))[slbar])
slturb(npx, npy) ==
    LET zon == Range(slbar(npx, npy))
    IN  SelectSeq([j \in 1..NModes(npx, npy) |-> j - 1], LAMBDA m : m \notin zon)

\* the number of coefficients rft returns: rfft(v)[1 : int(Nx/2)]
RftLen(npx) == Len(SliceIdx(1, Nx(npx) \div 2, 1, npx \div 2 + 1))

MakeGrid(npx, npy) ==
    [Nx |-> Nx(npx), Ny |-> Ny(npy), nmodes |-> NModes(npx, npy),
     slbar |-> slbar(npx, npy), slturb |-> slturb(npx, npy)]

---------------------------------------------------------------------------
(* The flat state buffer *)

\* positions, in the float view, of the real and imaginary part of complex slot c
RePos(c) == 2 * c + 1
ImPos(c) == 2 * c + 2

Part(v, j) == IF j % 2 = 1 THEN v.re ELSE v.im

\* z = hstack((hstack((ur, nr)), hstack((pk, qk)))).view(dtype=float): the
\* layout the integrator is handed
PackState(n, ur, nr, pk, qk) ==
    LET t == Len(pk)
    IN  [j \in 1..(2 * (2 * n + 2 * t)) |->
            LET c == (j - 1) \div 2
            IN  IF c < n THEN (IF j % 2 = 1 THEN ur[c] ELSE 0)
                ELSE IF c < 2 * n THEN (IF j % 2 = 1 THEN nr[c - n] ELSE 0)
                ELSE IF c < 2 * n + t THEN Part(pk[c - 2 * n + 1], j)
                ELSE Part(qk[c - 2 * n - t + 1], j)]

\* random-phase initial spectra phik0, nk0 at mode m
phik0(s, m) == [re |-> s * ((m % 3) - 1), im |-> s * (((m + 1) % 3) - 1)]
nk0(s, m) == [re |-> s * (((m + 2) % 3) - 1), im |-> s * ((m % 3) - 1)]

\* the initial 1D vector z of the run
InitialZ(n, g, s) ==
    PackState(n, [k \in 0..(n - 1) |-> 0], Nr0(n),
              [j \in 1..Len(g.slturb) |-> phik0(s, g.slturb[j])],
              [j \in 1..Len(g.slturb) |-> nk0(s, g.slturb[j])])

\* z[:] = fl['last/z']: the vector an earlier run left off with
ContinuedZ(n, g, s) ==
    PackState(n, [k \in 0..(n - 1) |-> s * ((k % 7) - 3) * 32],
              [k \in 0..(n - 1) |-> Nr0(n)[k] + s * ((k % 5) - 1) * 128],
              [j \in 1..Len(g.slturb) |-> phik0(s + 1, g.slturb[j])],
              [j \in 1..Len(g.slturb) |-> nk0(s + 1, g.slturb[j])])

\* zeros_like
ZerosLike(F) == [j \in 1..Len(F) |-> 0]

\* the buffer "dzdt = z" would bind: the storage of z itself
AllocAlias(src, next) == src

\* the buffer a newly created array lives in
AllocLike(src, next) == next

\* the slices zr[:int(zr.size/2)] and zr[int(zr.size/2):] of z[:X.size*2].real:
\* first complex slot of the velocity and of the density profile
UrOff(n) == 0
NrOff(n) == (2 * n) \div 2

\* element k of the profile view starting at complex slot off
ReadProf(F, n, off) == [k \in 0..(n - 1) |-> F[RePos(off + k)]]

\* "view += delta" through a complex view instead of its .real
AddProf_complex(F, n, off, delta) ==
    [j \in 1..(2 * (off + n)) |->
        LET c == (j - 1) \div 2
        IN  IF c >= off THEN F[j] + delta[c - off] ELSE F[j]]
    \o SubSeq(F, 2 * (off + n) + 1, Len(F))

\* "view += delta" through the real view of n slots starting at slot off:
\* the floats up to the view's last slot, then the rest of the buffer as it is
AddProf(F, n, off, delta) ==
    [j \in 1..(2 * (off + n)) |->
        LET c == (j - 1) \div 2
        IN  IF j % 2 = 1 /\ c >= off THEN F[j] + delta[c - off] ELSE F[j]]
    \o SubSeq(F, 2 * (off + n) + 1, Len(F))

---------------------------------------------------------------------------
(* The transforms, as far as storage goes: what each allocates, where its  *)
(* result lives, and whether it may overwrite its argument                 *)

Transforms == {"rft2", "irft2", "rft", "irft"}

\* rft2: rfft2's result, then hstack's copy; irft2: the array u; rft: rfft's
\* result; irft: the array v, then irfft's result
XfAllocs(fn) == IF fn \in {"rft2", "irft"} THEN 2 ELSE 1

\* irft2 transforming its argument in place and returning a view of it
XfOut_inplace(fn, arg, next) == IF fn = "irft2" THEN arg ELSE next + XfAllocs(fn) - 1

\* the result is the last array allocated (irft2 and rft return a view of it)
XfOut(fn, arg, next) == next + XfAllocs(fn) - 1

\* rfft2 is called with overwrite_x=True: the contents of u may be destroyed
XfMayClobber(fn) == fn = "rft2"

\* the buffers a call writes: its own, and the argument it may overwrite
XfWrites(fn, arg, next) ==
    (next..(next + XfAllocs(fn) - 1)) \cup (IF XfMayClobber(fn) THEN {arg} ELSE {})

\* the transforms rhs applies to temporaries in lines 268-282, in order
SpectralCalls ==
    <<"irft2", "irft2", "irft2", "rft2", "rft2", "rft2", "rft2", "rft2", "rft2", "rft2">>

\* each call is handed a new temporary (buffer next), then allocates its own
RECURSIVE RunCalls(_, _, _, _)
RunCalls(cs, i, next, wr) ==
    IF i > Len(cs) THEN [next |-> next, written |-> wr]
    ELSE RunCalls(cs, i + 1, next + 1 + XfAllocs(cs[i]),
                  wr \cup XfWrites(cs[i], next, next + 1))

---------------------------------------------------------------------------
(* The terms of rhs *)

\* what the transforms return for the spectra of the run: the turbulent
\* derivatives dphikdt, dnkdt at mode m
Dphik(s, m) == [re |-> s * (m + 1), im |-> -s * (m + 2)]
Dnk(s, m) == [re |-> -s * (m + 1), im |-> s * (m + 3)]

\* and the real profiles irft returns for their zonal slices
IrftU(n, s) == [k \in 0..(n - 1) |-> s * ((k % 5) - 2) * 64]
IrftN(n, a) ==
    LET q == IF n \div 4 > 0 THEN n \div 4 ELSE 1
    IN  [k \in 0..(n - 1) |-> IF (k \div q) % 2 = 0 THEN a * Scale ELSE -a * Scale]

\* irft(...) * psi_1D
Masked(n, w, psi) == [k \in 0..(n - 1) |-> Mul(w[k], psi[k])]

\* - mupen * (1 - psi_1D) * ur
NoSlipDelta(n, psi, ur) == [k \in 0..(n - 1) |-> -mupen * Mul(ur[k], Scale - psi[k])]

\* the source at x2 centred at X[i1] instead
GaussSubDelta_atI1(n, dn) ==
    [k \in 0..(n - 1) |-> Mul(-dn[Res(i2(n), n)], Gauss(k, Res(i1(n), n)))]

\* -dnrdt[i2] * exp(-(X - X[i2])**2 / sigS**2 / 2)
GaussSubDelta(n, dn) ==
    [k \in 0..(n - 1) |-> Mul(-dn[Res(i2(n), n)], Gauss(k, Res(i2(n), n)))]

\* dnrdt[i2] * exp(-(X - X[i1])**2 / sigS**2 / 2)
GaussAddDelta(n, dn) ==
    [k \in 0..(n - 1) |-> Mul(dn[Res(i2(n), n)], Gauss(k, Res(i1(n), n)))]

\* - mupen * (H1 * (nr - nbuff1) + H2 * (nr - nbuff2)), with
\* nbuff1, nbuff2 = nr0 - nr0[i1] + nr[i1], nr0 - nr0[i2] + nr[i2]
RestoreDelta(n, nr, n0, g) ==
    LET a1 == Res(i1(n), n)
        a2 == Res(i2(n), n)
        nbuff1 == [k \in 0..(n - 1) |-> n0[k] - n0[a1] + nr[a1]]
        nbuff2 == [k \in 0..(n - 1) |-> n0[k] - n0[a2] + nr[a2]]
    IN  [k \in 0..(n - 1) |->
            -mupen * (Mul(nr[k] - nbuff1[k], g.H1[k]) + Mul(nr[k] - nbuff2[k], g.H2[k]))]

\* hstack with its two halves exchanged
EncodeTurb_swapped(F, n, g, s) ==
    LET t == Len(g.slturb)
    IN  SubSeq(F, 1, 4 * n) \o
        [j \in 1..(Len(F) - 4 * n) |->
            LET c == (j - 1) \div 2
            IN  IF c < t THEN Part(Dnk(s, g.slturb[c + 1]), j)
                ELSE Part(Dphik(s, g.slturb[c - t + 1]), j)]

\* dzkdt[:] = hstack((dphikdt[slturb], dnkdt[slturb])), dzkdt = dzdt[X.size*2:]:
\* the floats of the first 2 * X.size slots as they are, then the two halves
EncodeTurb(F, n, g, s) ==
    LET t == Len(g.slturb)
    IN  SubSeq(F, 1, 4 * n) \o
        [j \in 1..(Len(F) - 4 * n) |->
            LET c == (j - 1) \div 2
            IN  IF c < t THEN Part(Dphik(s, g.slturb[c + 1]), j)
                ELSE Part(Dnk(s, g.slturb[c - t + 1]), j)]

AddFn(n, f, d) == [k \in 0..(n - 1) |-> f[k] + d[k]]

---------------------------------------------------------------------------
(* The run: setup, then the integrator calling rhs and stepping the state *)

Npx == cfg[1]
Npy == cfg[2]

NoBase == [y |-> 0, z |-> 0, ur |-> 0, nr |-> 0, zk |-> 0, dzdt |-> 0, durdt |-> 0,
           dnrdt |-> 0, dzkdt |-> 0, nbar |-> 0, ubar |-> 0, phik |-> 0, nk |-> 0,
           dphikdt |-> 0, dnkdt |-> 0]

NoProbe == [kind |-> "none"]

Init ==
    /\ cfg \in Configs
    /\ seed \in [s : 1..MaxSeed, a : (-MaxAmp)..MaxAmp, wecontinue : BOOLEAN]
    /\ pc = "setup"
    /\ status = "none"
    /\ grid = <<>>
    /\ gate = <<>>
    /\ nr0 = <<>>
    /\ mem = <<>>
    /\ base = NoBase
    /\ written = {}
    /\ nextBuf = 1
    /\ returned = <<>>
    /\ calls = 0
    /\ ampSub = 0
    /\ ampAdd = 0
    /\ durdtL = <<>>
    /\ dnrdtL = <<>>
    /\ rforce = <<>>
    /\ probe = NoProbe

\* lines 19-110 and 306-317: grids, index sets, initial vector, gate masks.
\* Nothing here inspects the buffer indices.
Setup ==
    /\ pc = "setup"
    /\ status' = "ok"
    /\ grid' = MakeGrid(Npx, Npy)
    /\ nr0' = Nr0(Npx)
    /\ gate' = MakeGates(Npx)
    /\ mem' = (1 :> IF seed.wecontinue THEN ContinuedZ(Npx, grid', seed.s)
                     ELSE InitialZ(Npx, grid', seed.s))
    /\ base' = [NoBase EXCEPT !.y = 1]
    /\ nextBuf' = 2
    /\ pc' = "idle"
    /\ UNCHANGED <<cfg, seed, written, returned, calls, ampSub, ampAdd, durdtL,
                   dnrdtL, rforce, probe>>

\* lines 240-249: the views of y and the new derivative array with its views
RhsEnter ==
    /\ pc = "idle"
    /\ calls < MaxCalls
    /\ LET b == AllocLike(base.y, nextBuf)
       IN  /\ mem' = (b :> ZerosLike(mem[base.y])) @@ mem
           /\ base' = [NoBase EXCEPT !.y = base.y, !.z = base.y, !.ur = base.y,
                                     !.nr = base.y, !.zk = base.y, !.dzdt = b,
                                     !.durdt = b, !.dnrdt = b, !.dzkdt = b]
           /\ written' = {b}
    /\ nextBuf' = nextBuf + 1
    /\ durdtL' = [k \in 0..(Npx - 1) |-> 0]
    /\ dnrdtL' = [k \in 0..(Npx - 1) |-> 0]
    /\ rforce' = <<>>
    /\ ampSub' = 0
    /\ ampAdd' = 0
    /\ pc' = "decompose"
    /\ UNCHANGED <<cfg, seed, status, grid, gate, nr0, returned, calls, probe>>

\* lines 252-255: dec_prof builds nlin, nbar_raw, its gate and nbar_smth, and
\* subtracts the mean from nbar_smth in place; ubar is a new product
RhsDecompose ==
    /\ pc = "decompose"
    /\ base' = [base EXCEPT !.nbar = nextBuf + 3, !.ubar = nextBuf + 5]
    /\ written' = written \cup (nextBuf..(nextBuf + 5))
    /\ nextBuf' = nextBuf + 6
    /\ pc' = "gather"
    /\ UNCHANGED <<cfg, seed, status, grid, gate, nr0, mem, returned, calls, ampSub,
                   ampAdd, durdtL, dnrdtL, rforce, probe>>

\* lines 258-265: the zonal coefficients are gathered into phik, nk at slbar;
\* numpy refuses the assignment when the two lengths differ
RhsGather ==
    /\ pc = "gather"
    /\ LET w1 == XfWrites("rft", base.ubar, nextBuf)
           n1 == nextBuf + XfAllocs("rft")
           w2 == XfWrites("rft", base.nbar, n1)
           n2 == n1 + XfAllocs("rft")
       IN  /\ base' = [base EXCEPT !.phik = n2 + 1, !.nk = n2 + 2,
                                   !.dphikdt = n2 + 3, !.dnkdt = n2 + 4]
           /\ written' = written \cup w1 \cup w2 \cup (n2..(n2 + 4))
           /\ nextBuf' = n2 + 5
    /\ pc' = IF RftLen(Npx) = Len(grid.slbar) THEN "spectral" ELSE "error"
    /\ UNCHANGED <<cfg, seed, status, grid, gate, nr0, mem, returned, calls, ampSub,
                   ampAdd, durdtL, dnrdtL, rforce, probe>>

\* lines 268-282: the non-linear, linear and penalisation terms; dphikdt and
\* dnkdt are rebound to new arrays and updated in place
RhsSpectral ==
    /\ pc = "spectral"
    /\ LET r == RunCalls(SpectralCalls, 1, nextBuf, written)
       IN  /\ base' = [base EXCEPT !.dphikdt = r.next, !.dnkdt = r.next + 1]
           /\ written' = r.written \cup {r.next, r.next + 1}
           /\ nextBuf' = r.next + 2
    /\ pc' = "profiles"
    /\ UNCHANGED <<cfg, seed, status, grid, gate, nr0, mem, returned, calls, ampSub,
                   ampAdd, durdtL, dnrdtL, rforce, probe>>

\* "view += d" on the derivative array, for the velocity (off = UrOff) or the
\* density (off = NrOff) profile
AddTo(viewBuf, off, d) ==
    /\ mem' = [mem EXCEPT ![viewBuf] = AddProf(@, Npx, off, d)]
    /\ written' = written \cup {viewBuf}

\* lines 285-286
RhsProfiles ==
    /\ pc = "profiles"
    /\ LET du == Masked(Npx, IrftU(Npx, seed.s), gate.psi_1D)
           dn == Masked(Npx, IrftN(Npx, seed.a), gate.psi_1D)
           m1 == [mem EXCEPT ![base.durdt] = AddProf(@, Npx, UrOff(Npx), du)]
       IN  /\ mem' = [m1 EXCEPT ![base.dnrdt] = AddProf(@, Npx, NrOff(Npx), dn)]
           /\ durdtL' = AddFn(Npx, durdtL, du)
           /\ dnrdtL' = AddFn(Npx, dnrdtL, dn)
    /\ written' = written \cup {base.durdt, base.dnrdt}
    /\ nextBuf' = nextBuf + 2 * (1 + XfAllocs("irft"))
    /\ pc' = "noslip"
    /\ UNCHANGED <<cfg, seed, status, grid, gate, nr0, base, returned, calls, ampSub,
                   ampAdd, rforce, probe>>

\* line 289
RhsNoSlip ==
    /\ pc = "noslip"
    /\ LET d == NoSlipDelta(Npx, gate.psi_1D, ReadProf(mem[base.ur], Npx, UrOff(Npx)))
       IN  /\ AddTo(base.durdt, UrOff(Npx), d)
           /\ durdtL' = AddFn(Npx, durdtL, d)
    /\ pc' = "gsub"
    /\ UNCHANGED <<cfg, seed, status, grid, gate, nr0, base, nextBuf, returned, calls,
                   ampSub, ampAdd, dnrdtL, rforce, probe>>

\* line 292
RhsGaussSub ==
    /\ pc = "gsub"
    /\ LET dn == ReadProf(mem[base.dnrdt], Npx, NrOff(Npx))
           d  == GaussSubDelta(Npx, dn)
       IN  /\ AddTo(base.dnrdt, NrOff(Npx), d)
           /\ dnrdtL' = AddFn(Npx, dnrdtL, d)
           /\ ampSub' = dn[Res(i2(Npx), Npx)]
    /\ pc' = "gadd"
    /\ UNCHANGED <<cfg, seed, status, grid, gate, nr0, base, nextBuf, returned, calls,
                   ampAdd, durdtL, rforce, probe>>

\* line 293
RhsGaussAdd ==
    /\ pc = "gadd"
    /\ LET dn == ReadProf(mem[base.dnrdt], Npx, NrOff(Npx))
           d  == GaussAddDelta(Npx, dn)
       IN  /\ AddTo(base.dnrdt, NrOff(Npx), d)
           /\ dnrdtL' = AddFn(Npx, dnrdtL, d)
           /\ ampAdd' = dn[Res(i2(Npx), Npx)]
    /\ pc' = "restore"
    /\ UNCHANGED <<cfg, seed, status, grid, gate, nr0, base, nextBuf, returned, calls,
                   ampSub, durdtL, rforce, probe>>

\* lines 296-297
RhsRestore ==
    /\ pc = "restore"
    /\ LET d == RestoreDelta(Npx, ReadProf(mem[base.nr], Npx, NrOff(Npx)), nr0, gate)
       IN  /\ AddTo(base.dnrdt, NrOff(Npx), d)
           /\ dnrdtL' = AddFn(Npx, dnrdtL, d)
           /\ rforce' = d
    /\ pc' = "encode"
    /\ UNCHANGED <<cfg, seed, status, grid, gate, nr0, base, nextBuf, returned, calls,
                   ampSub, ampAdd, durdtL, probe>>

\* line 300
RhsEncode ==
    /\ pc = "encode"
    /\ mem' = [mem EXCEPT ![base.dzkdt] = EncodeTurb(@, Npx, grid, seed.s)]
    /\ written' = written \cup {base.dzkdt, nextBuf}
    /\ nextBuf' = nextBuf + 1
    /\ pc' = "return"
    /\ UNCHANGED <<cfg, seed, status, grid, gate, nr0, base, returned, calls, ampSub,
                   ampAdd, durdtL, dnrdtL, rforce, probe>>

\* line 303: dzdt.view(dtype=float) is handed to the integrator
RhsReturn ==
    /\ pc = "return"
    /\ returned' = Append(returned, base.dzdt)
    /\ calls' = calls + 1
    /\ pc' = "integrate"
    /\ UNCHANGED <<cfg, seed, status, grid, gate, nr0, mem, base, written, nextBuf,
                   ampSub, ampAdd, durdtL, dnrdtL, rforce, probe>>

\* the integrator advances its state by the derivative it was handed
Integrate ==
    /\ pc = "integrate"
    /\ LET y == mem[base.y]
           k == mem[returned[Len(returned)]]
       IN  mem' = (base.y :> [j \in 1..Len(y) |-> y[j] + Mul(k[j], dtstep)])
    /\ pc' = "idle"
    /\ UNCHANGED <<cfg, seed, status, grid, gate, nr0, base, written, nextBuf, returned,
                   calls, ampSub, ampAdd, durdtL, dnrdtL, rforce, probe>>

Next ==
    \/ Setup
    \/ RhsEnter
    \/ RhsDecompose
    \/ RhsGather
    \/ RhsSpectral
    \/ RhsProfiles
    \/ RhsNoSlip
    \/ RhsGaussSub
    \/ RhsGaussAdd
    \/ RhsRestore
    \/ RhsEncode
    \/ RhsReturn
    \/ Integrate

Spec == Init /\ [][Next]_vars

---------------------------------------------------------------------------
(* Runs of single functions on drawn arguments *)

runVars == <<cfg, pc, status, grid, gate, nr0, mem, base, written, nextBuf,
             returned, calls, seed, ampSub, ampAdd, durdtL, dnrdtL, rforce>>

NoRun ==
    /\ cfg = <<12, 12>>
    /\ seed = [s |-> 1, a |-> 0, wecontinue |-> FALSE]
    /\ pc = "probe"
    /\ status = "none"
    /\ grid = <<>>
    /\ gate = <<>>
    /\ nr0 = <<>>
    /\ mem = <<>>
    /\ base = NoBase
    /\ written = {}
    /\ nextBuf = 1
    /\ returned = <<>>
    /\ calls = 0
    /\ ampSub = 0
    /\ ampAdd = 0
    /\ durdtL = <<>>
    /\ dnrdtL = <<>>
    /\ rforce = <<>>

(* smooth_gate on a grid of GateN points, for every four index arguments *)

GateInit ==
    /\ NoRun
    /\ probe \in [kind : {"gate"}, n : {GateN}, gl : (-GateN)..(GateN - 1),
                  g1 : (-GateN)..(GateN - 1), g2 : (-GateN)..(GateN - 1),
                  gr : (-GateN)..(GateN - 1), done : {FALSE}, f : {<<>>}]

CallSmoothGate ==
    /\ probe.kind = "gate"
    /\ ~probe.done
    /\ probe' = [probe EXCEPT !.done = TRUE,
                              !.f = smooth_gate(probe.n, probe.gl, probe.g1,
                                                probe.g2, probe.gr)]
    /\ UNCHANGED runVars

GateNext == CallSmoothGate

GateSpec == GateInit /\ [][GateNext]_vars

(* the index sets of lines 54-61, for every pair of padded resolutions *)

GridInit ==
    /\ NoRun
    /\ probe \in [kind : {"grid"}, npx : 6..MaxNp, npy : 6..MaxNp, done : {FALSE},
                  slbar : {<<>>}, slturb : {<<>>}, rftLen : {0}]

BuildIndexSets ==
    /\ probe.kind = "grid"
    /\ ~probe.done
    /\ probe' = [probe EXCEPT !.done = TRUE,
                              !.slbar = slbar(probe.npx, probe.npy),
                              !.slturb = slturb(probe.npx, probe.npy),
                              !.rftLen = RftLen(probe.npx)]
    /\ UNCHANGED runVars

GridNext == BuildIndexSets

GridSpec == GridInit /\ [][GridNext]_vars

(* the four transforms, called on any array at hand.  An array's contents  *)
(* are the history of the calls that produced it.                          *)

XfInit ==
    /\ NoRun
    /\ probe = [kind |-> "xf", heap |-> (1 :> <<"data">>), next |-> 2, n |-> 0,
                last |-> [fn |-> "none", arg |-> 0, before |-> <<>>, out |-> 0,
                          existed |-> {}]]

\* one call of transform fn on the array in buffer arg; when the transform
\* may overwrite its argument, clobber says whether this call did
CallXf(fn, arg, clobber) ==
    /\ probe.kind = "xf"
    /\ probe.n < MaxXf
    /\ arg \in DOMAIN probe.heap
    /\ clobber => XfMayClobber(fn)
    /\ LET h    == probe.heap
           nxt  == probe.next
           out  == XfOut(fn, arg, nxt)
           made == [b \in nxt..(nxt + XfAllocs(fn) - 1) |-> Append(h[arg], fn)]
           h1   == IF clobber THEN [h EXCEPT ![arg] = <<"clobbered">>] ELSE h
       IN  probe' = [probe EXCEPT
                        !.heap = IF out \in DOMAIN h1
                                 THEN [h1 EXCEPT ![out] = Append(h[arg], fn)]
                                 ELSE made @@ h1,
                        !.next = nxt + XfAllocs(fn),
                        !.n = probe.n + 1,
                        !.last = [fn |-> fn, arg |-> arg, before |-> h[arg],
                                  out |-> out, existed |-> DOMAIN h]]
    /\ UNCHANGED runVars

rft2 == \E u \in DOMAIN probe.heap : \E c \in BOOLEAN : CallXf("rft2", u, c)
irft2 == \E uk \in DOMAIN probe.heap : CallXf("irft2", uk, FALSE)
rft == \E v \in DOMAIN probe.heap : CallXf("rft", v, FALSE)
irft == \E vk \in DOMAIN probe.heap : CallXf("irft", vk, FALSE)

XfNext == rft2 \/ irft2 \/ rft \/ irft

XfSpec == XfInit /\ [][XfNext]_vars

---------------------------------------------------------------------------
(* Properties *)

\* the density derivative profile held in the derivative array
Dnrdt == ReadProf(mem[base.dnrdt], Npx, NrOff(Npx))

I1r == Res(i1(Npx), Npx)
I2r == Res(i2(Npx), Npx)

AfterSetup == pc \notin {"setup", "probe"}

InRhs == pc \in {"decompose", "gather", "spectral", "profiles", "noslip", "gsub",
                 "gadd", "restore", "encode", "return"}

\* C1: right after the Gaussian at X[i2] has been subtracted (line 292), and
\* before line 293 runs, dnrdt[i2] is exactly 0, whatever it was before.
C1_ZeroAfterSubtraction == pc = "gadd" => Dnrdt[I2r] = 0

C1_Witness == pc = "gadd" /\ ampSub # 0 /\ Dnrdt[I1r] # 0

\* C2: the Gaussian added around X[i1] (line 293) is scaled by the value
\* dnrdt[i2] had before the subtraction of line 292: once both lines have run
\* and that value was non-zero, the amplitude added equals the amplitude
\* subtracted.
C2_SameAmplitude == (pc = "restore" /\ ampSub # 0) => ampAdd = ampSub

\* C3: no step of rhs changes what the storage of y holds or writes to it,
\* and the derivative rhs returns lives in a buffer that is neither y's nor
\* that of a derivative returned earlier.
C3_InputUntouchedOutputFresh ==
    [][/\ (InRhs /\ pc' # "error") =>
            /\ base'.y = base.y
            /\ mem'[base.y] = mem[base.y]
            /\ base.y \notin written'
            /\ base'.dzdt # base.y
       /\ \A i, j \in DOMAIN returned' :
            /\ returned'[i] # base'.y
            /\ i # j => returned'[i] # returned'[j]]_vars

C3_Witness ==
    /\ pc = "integrate"
    /\ Len(returned) = 2
    /\ base.y \in DOMAIN mem
    /\ returned[2] \in DOMAIN mem
    /\ \E k \in 0..(Npx - 1) : dnrdtL[k] # 0

\* the derivative fields rhs computed, laid out as the state is laid out
ExpectedOut ==
    PackState(Npx, durdtL, dnrdtL,
              [j \in 1..Len(grid.slturb) |-> Dphik(seed.s, grid.slturb[j])],
              [j \in 1..Len(grid.slturb) |-> Dnk(seed.s, grid.slturb[j])])

\* C4: the array rhs returns has the length and the layout of its input: the
\* slots of u_r hold du_r/dt, those of n_r hold dn_r/dt, the first half of
\* the turbulent slice holds dphik/dt and the second half dnk/dt at the
\* turbulent positions, in the order of the input.
C4_SameLayout ==
    pc = "integrate" =>
        /\ Len(mem[returned[Len(returned)]]) = Len(mem[base.y])
        /\ mem[returned[Len(returned)]] = ExpectedOut

C4_Witness ==
    /\ pc = "integrate"
    /\ Len(grid.slturb) > 1
    /\ \E k \in 0..(Npx - 1) : durdtL[k] # 0
    /\ \E k \in 0..(Npx - 1) : dnrdtL[k] # 0 /\ dnrdtL[k] # durdtL[k]

\* C5: in the state and in every derivative returned, the 2 * Npx slots of
\* the radial profiles have a zero imaginary part, through every call of rhs
\* and every step of the integrator.
C5_ProfilesReal ==
    AfterSetup =>
        \A b \in DOMAIN mem : \A c \in 0..(2 * Npx - 1) : mem[b][ImPos(c)] = 0

C5_Witness ==
    /\ pc = "idle"
    /\ calls = 2
    /\ \E k \in 0..(Npx - 1) : mem[base.y][RePos(NrOff(Npx) + k)] # nr0[k]
    /\ \E c \in (2 * Npx)..(Len(mem[base.y]) \div 2 - 1) : mem[base.y][ImPos(c)] # 0

\* resolved arguments of the gate run
Gxl == Res(probe.gl, probe.n)
Gx1 == Res(probe.g1, probe.n)
Gx2 == Res(probe.g2, probe.n)
Gxr == Res(probe.gr, probe.n)

\* C6: for index arguments that resolve to il < i1 < i2 < ir, smooth_gate is
\* exactly 0 at and below il, exactly 0 at and beyond ir, exactly 1 on
\* [i1, i2], non-decreasing from il to i1 and non-increasing from i2 to ir.
C6_GateShape ==
    (probe.kind = "gate" /\ probe.done /\ Gxl < Gx1 /\ Gx1 < Gx2 /\ Gx2 < Gxr) =>
        /\ \A k \in 0..(probe.n - 1) : k <= Gxl => probe.f[k] = 0
        /\ \A k \in 0..(probe.n - 1) : k >= Gxr => probe.f[k] = 0
        /\ \A k \in 0..(probe.n - 1) : (Gx1 <= k /\ k <= Gx2) => probe.f[k] = Scale
        /\ \A k \in Gxl..(Gx1 - 1) : probe.f[k] <= probe.f[k + 1]
        /\ \A k \in Gx2..(Gxr - 1) : probe.f[k] >= probe.f[k + 1]

C6_Witness ==
    /\ probe.kind = "gate" /\ probe.done
    /\ probe.gl >= 0 /\ probe.gr < 0 /\ probe.g2 < 0
    /\ Gxl < Gx1 /\ Gx1 < Gx2 /\ Gx2 < Gxr
    /\ \E k \in (Gxl + 1)..(Gx1 - 1) : 0 < probe.f[k] /\ probe.f[k] < Scale
    /\ \E k \in (Gx2 + 1)..(Gxr - 1) : 0 < probe.f[k] /\ probe.f[k] < Scale

\* C7: when the resolved buffer indices violate
\* 0 <= il < im1 < i1 < i2 < im2 < ir < Npx, setup ends in a
\* ConfigurationError: it never completes, so no gate is built and rhs
\* never runs.
C7_SetupRejectsBadOrder ==
    (AfterSetup /\ ~ValidOrder(Npx)) => status = "ConfigurationError"

\* C8 as stated: every transform leaves its argument as it was and returns
\* its result in storage that did not exist before the call.
C8_AllPure ==
    (probe.kind = "xf" /\ probe.last.fn # "none") =>
        /\ probe.heap[probe.last.arg] = probe.last.before
        /\ probe.last.out \notin probe.last.existed

\* C8, amended: irft2, rft and irft leave their argument as it was; all four
\* return their result in storage that did not exist before the call, so it
\* aliases neither the argument nor the result of another call.
C8_PureButRft2Argument ==
    (probe.kind = "xf" /\ probe.last.fn # "none") =>
        /\ probe.last.fn # "rft2" => probe.heap[probe.last.arg] = probe.last.before
        /\ probe.last.out \notin probe.last.existed
        /\ probe.heap[probe.last.out] = Append(probe.last.before, probe.last.fn)

C8_Witness ==
    /\ probe.kind = "xf"
    /\ probe.n = 3
    /\ probe.last.fn = "irft2"
    /\ probe.last.arg > 1
    /\ \E b \in DOMAIN probe.heap : probe.heap[b] = <<"clobbered">>

\* C9: for every padded resolution, the zonal index set has Nx/2 - 1
\* positions, the number of coefficients rft returns.
C9_ZonalCount ==
    (probe.kind = "grid" /\ probe.done) =>
        /\ Len(probe.slbar) = Nx(probe.npx) \div 2 - 1
        /\ Len(probe.slbar) = probe.rftLen

\* C10 as stated: under a validly ordered buffer configuration, a state on
\* which the restoring force of line 297 acts leaves a non-zero dnrdt[i2] in
\* the derivative rhs returns.
C10_NonZeroAtReturn ==
    (pc = "return" /\ ValidOrder(Npx) /\ \E k \in 0..(Npx - 1) : rforce[k] # 0)
        => Dnrdt[I2r] # 0

\* C10, amended: under a validly ordered buffer configuration dnrdt[i2] is
\* zero in the derivative rhs returns; the restoring force of line 297 is
\* weighted by H1 and H2, which both vanish at i2.
C10_ZeroAtReturn ==
    (pc \in {"encode", "return", "integrate"} /\ ValidOrder(Npx)) => Dnrdt[I2r] = 0

C10_Witness ==
    /\ pc = "return"
    /\ ValidOrder(Npx)
    /\ ampSub # 0
    /\ \E k \in 0..(Npx - 1) : rforce[k] # 0
    /\ \E k \in 0..(Npx - 1) : k > I2r /\ rforce[k] # 0

=============================================================================
